---- MODULE Spec2Model ----
(***************************************************************************)
(* Model of the wire codecs of umrt-arm-firmware-lib:                      *)
(*   src/src/CommunicationMaster.py  integer packing, 7-bit Firmata        *)
(*                                   framing, response handlers            *)
(*   src/src/MksTest.py              MKS CAN command frames and checksum   *)
(*                                                                         *)
(* A Python bytearray is a sequence of integers in 0..255 (TLA+ sequences  *)
(* are 1-based: Python's data[i] is data[i + 1] here).  A Python exception *)
(* is an outcome value carrying the exception's class name.                *)
(*                                                                         *)
(* Python integers are unbounded while TLC's are 32-bit, so the integers   *)
(* handled by pack_16, pack_32 and decode_8/16/32 are kept as two limbs:   *)
(* [hi |-> h, lo |-> l] stands for h * 65536 + l with l in 0..65535 and h  *)
(* any integer (negative for a negative value).                            *)
(*                                                                         *)
(* input, ops, out: the argument a chain of calls started from, the calls  *)
(* made so far and the latest outcome.  attempts, printed: the messages    *)
(* handed to bus.send and the number of error reports printed.  calls,     *)
(* frames: the calls running on threads and their activation records.      *)
(***************************************************************************)
EXTENDS Integers, Sequences, FiniteSets, TLC

VARIABLES input, ops, out, attempts, printed, calls, frames

vars == <<input, ops, out, attempts, printed, calls, frames>>

(***************************************************************************)
(* Bounds of the model.                                                    *)
(***************************************************************************)
\* longest byte sequence built from SampleBytes
MaxLen == 3
\* number of calls chained on one input
MaxOps == 3
\* integers are sampled within Spread of each pivot value
Spread == 2
\* largest offset handed to decode_8, decode_16 and decode_32
MaxOffset == 2

\* number of threads that make calls at the same time
MaxThreads == 2

(***************************************************************************)
(* Python's integer operators.                                             *)
(***************************************************************************)
RECURSIVE BitAnd(_, _)
\* a & m for a mask m >= 0; a may be negative (two's complement, as Python)
BitAnd(a, m) ==
    IF m = 0 THEN 0
    ELSE (a % 2) * (m % 2) + 2 * BitAnd(a \div 2, m \div 2)

RECURSIVE BitOr(_, _)
\* a | b for a, b >= 0
BitOr(a, b) ==
    IF a = 0 THEN b
    ELSE IF b = 0 THEN a
    ELSE (IF a % 2 = 1 \/ b % 2 = 1 THEN 1 ELSE 0) + 2 * BitOr(a \div 2, b \div 2)

\* a >> k, an arithmetic shift (floor division)
Shr(a, k) == a \div (2 ^ k)

\* a << k
Shl(a, k) == a * (2 ^ k)

\* the two-limb integer hi * 65536 + lo, normalised to lo in 0..65535
Wide(hi, lo) == [hi |-> hi + (lo \div 65536), lo |-> lo % 65536]

RECURSIVE WShr(_, _)
\* w >> k on a two-limb integer
WShr(w, k) ==
    IF k >= 16 THEN WShr(Wide(w.hi \div 65536, w.hi % 65536), k - 16)
    ELSE Wide(w.hi \div (2 ^ k),
              (w.lo \div (2 ^ k)) + (w.hi % (2 ^ k)) * (2 ^ (16 - k)))

\* w & m on a two-limb integer, for a mask 0 <= m < 65536
WAnd(w, m) == BitAnd(w.lo, m)

(***************************************************************************)
(* Outcomes of a call.                                                     *)
(***************************************************************************)
Bytes(b) == [kind |-> "bytes", val |-> b]
Integer(w) == [kind |-> "int", val |-> w]
Raise(e) == [kind |-> "error", val |-> e]
\* an integer small enough to be kept as it is (checksums, device ids)
Num(n) == [kind |-> "num", val |-> n]
\* a can.Message: its arbitration id and its data bytes
Msg(id, data) == [kind |-> "msg", val |-> [arbitration_id |-> id, data |-> data]]

(***************************************************************************)
(* CommunicationMaster.py: integer packing.                                *)
(***************************************************************************)
\* pack_32 emitting the most significant byte first
pack_32_big_endian(integer) ==
    << WAnd(WShr(integer, 24), 255),
       WAnd(WShr(integer, 16), 255),
       WAnd(WShr(integer, 8), 255),
       WAnd(integer, 255) >>

pack_32(integer) ==
    << WAnd(integer, 255),
       WAnd(WShr(integer, 8), 255),
       WAnd(WShr(integer, 16), 255),
       WAnd(WShr(integer, 24), 255) >>

\* pack_16 clamping an integer outside 0..2^16-1 to the nearest bound
pack_16_saturating(integer) ==
    IF integer.hi > 0 THEN <<255, 255>>
    ELSE IF integer.hi < 0 THEN <<0, 0>>
    ELSE << WAnd(integer, 255), WAnd(WShr(integer, 8), 255) >>

pack_16(integer) ==
    << WAnd(integer, 255),
       WAnd(WShr(integer, 8), 255) >>

(***************************************************************************)
(* CommunicationMaster.py: 7-bit Firmata framing.                          *)
(***************************************************************************)
RECURSIVE firmatify_loop(_, _, _)
\* the for loop of firmatify: b after the bytes pack[k..] have been appended
firmatify_loop(pack, k, b) ==
    IF k > Len(pack) THEN b
    ELSE firmatify_loop(pack, k + 1,
            Append(Append(b, BitAnd(pack[k], 127)),
                   Shr(BitAnd(pack[k], 128), 7)))

\* firmatify without the shift of the high bit: (p & 0x80) is appended as is
firmatify_no_shift(pack) ==
    [i \in 1 .. 2 * Len(pack) |->
        IF i % 2 = 1 THEN BitAnd(pack[(i + 1) \div 2], 127)
        ELSE BitAnd(pack[i \div 2], 128)]

firmatify(pack) == firmatify_loop(pack, 1, <<>>)

RECURSIVE defirmatify_loop(_, _, _)
\* the for loop of defirmatify from the pair starting at data[k]: reading
\* data[i + 1] past the end raises IndexError, appending a value above 255
\* to the bytearray raises ValueError
defirmatify_loop(data, k, b) ==
    IF k > Len(data) THEN Bytes(b)
    ELSE IF k + 1 > Len(data) THEN Raise("IndexError")
    ELSE LET v == BitOr(data[k], Shl(data[k + 1], 7))
         IN  IF v > 255 THEN Raise("ValueError")
             ELSE defirmatify_loop(data, k + 2, Append(b, v))

\* defirmatify that ignores the high element of every pair
defirmatify_drop_high(data) ==
    IF Len(data) % 2 = 1 THEN Raise("IndexError")
    ELSE Bytes([i \in 1 .. Len(data) \div 2 |-> data[2 * i - 1]])

\* defirmatify that stops before a dangling last element: range(0, len - 1, 2)
defirmatify_skip_last(data) ==
    defirmatify_loop(SubSeq(data, 1, 2 * (Len(data) \div 2)), 1, <<>>)

\* defirmatify that masks the high element of every pair to its low bit
defirmatify_mask_high(data) ==
    IF Len(data) % 2 = 1 THEN Raise("IndexError")
    ELSE Bytes([i \in 1 .. Len(data) \div 2 |->
                   BitOr(data[2 * i - 1], Shl(BitAnd(data[2 * i], 1), 7))])

defirmatify(data) == defirmatify_loop(data, 1, <<>>)

(***************************************************************************)
(* CommunicationMaster.py: integer decoding.                               *)
(***************************************************************************)
\* data[a:b] padded with zeros to b - a bytes, as from a zeroed buffer
Slice_padded(data, a, b) ==
    [i \in 1 .. b - a |-> IF a + i <= Len(data) THEN data[a + i] ELSE 0]

\* data[a:b] for 0 <= a <= b: a slice is cut at the end of data
Slice(data, a, b) ==
    SubSeq(data, a + 1, IF b < Len(data) THEN b ELSE Len(data))

\* int.from_bytes that never reads a sign bit
from_bytes_unsigned(b, signed) ==
    LET n == Len(b)
        byte(i) == IF i <= n THEN b[i] ELSE 0
    IN  Wide(byte(3) + 256 * byte(4), byte(1) + 256 * byte(2))

\* int.from_bytes(b, byteorder='little', signed=signed) for at most 4 bytes
from_bytes_little(b, signed) ==
    LET n == Len(b)
        byte(i) == IF i <= n THEN b[i] ELSE 0
        lo == byte(1) + 256 * byte(2)
        hi == byte(3) + 256 * byte(4)
        negative == signed /\ n > 0 /\ b[n] >= 128
    IN  IF ~negative THEN Wide(hi, lo)
        ELSE IF n <= 2 THEN Wide(hi, lo - 256 ^ n)
        ELSE Wide(hi - 256 ^ (n - 2), lo)

decode_32(data, offset, signed) ==
    from_bytes_little(Slice(data, offset, offset + 4), signed)

decode_16(data, offset, signed) ==
    from_bytes_little(Slice(data, offset, offset + 2), signed)

decode_8(data, offset, signed) ==
    from_bytes_little(Slice(data, offset, offset + 1), signed)

(***************************************************************************)
(* CommunicationMaster.py: the payloads the script sends and the handlers  *)
(* of the responses.                                                       *)
(***************************************************************************)
\* the values a handler prints
Fields(f) == [kind |-> "fields", val |-> f]

\* firmatify(bytearray([motor]) + pack_16(speed)), sent with SET_SPEED
request_set_speed(motor, speed) == firmatify(<<motor>> \o pack_16(speed))

\* firmatify(bytearray([motor]) + pack_16(steps) + pack_16(speed))
request_send_step(motor, steps, speed) ==
    firmatify(<<motor>> \o pack_16(steps) \o pack_16(speed))

\* firmatify(bytearray([motor]) + pack_32(pos) + pack_16(speed))
request_seek_pos(motor, pos, speed) ==
    firmatify(<<motor>> \o pack_32(pos) \o pack_16(speed))

on_set_speed(data) ==
    LET d == defirmatify(data)
    IN  IF d.kind = "error" THEN d
        ELSE Fields([motor |-> decode_8(d.val, 0, FALSE),
                     speed |-> decode_16(d.val, 1, TRUE)])

on_send_step(data) ==
    LET d == defirmatify(data)
    IN  IF d.kind = "error" THEN d
        ELSE Fields([motor |-> decode_8(d.val, 0, FALSE),
                     steps |-> decode_16(d.val, 1, FALSE),
                     speed |-> decode_16(d.val, 3, TRUE)])

\* on_seek_position reading the speed right after a 16-bit position
on_seek_position_short(data) ==
    LET d == defirmatify(data)
    IN  IF d.kind = "error" THEN d
        ELSE Fields([motor |-> decode_8(d.val, 0, FALSE),
                     position |-> decode_32(d.val, 1, TRUE),
                     speed |-> decode_16(d.val, 3, TRUE)])

on_seek_position(data) ==
    LET d == defirmatify(data)
    IN  IF d.kind = "error" THEN d
        ELSE Fields([motor |-> decode_8(d.val, 0, FALSE),
                     position |-> decode_32(d.val, 1, TRUE),
                     speed |-> decode_16(d.val, 5, TRUE)])

(***************************************************************************)
(* MksTest.py: checksum and command frames.                                *)
(***************************************************************************)
SET_SPEED == 246
SEND_STEP == 253
SEEK_POS_BY_STEPS == 254

\* class Commands(IntEnum): every name defined in the class body with the
\* value it is given
Commands ==
    [ ENCODER_SPLIT |-> 48, ENCODER_ADDITIVE |-> 49, MOTOR_SPEED |-> 50,
      CURRENT_POS |-> 51, IO_STATUS |-> 52, ENCODER_RAW |-> 53,
      TARGET_ANGLE_ERROR |-> 57, ENABLE_STATUS |-> 58, GO_HOME_STATUS |-> 59,
      RELEASE_SHAFT_LOCK |-> 61, SHAFT_LOCK_STATUS |-> 62,
      CALIBRATION |-> 128, SET_WORK_MODE |-> 130,
      SET_WORKING_CURRENT |-> 131, SET_HOLDING_CURRENT |-> 131,
      SET_MICROSTEP |-> 132, SET_EN_MODE |-> 132, SET_DIR_MODE |-> 134,
      ENABLE_DISPLAY_SLEEP |-> 134, ENABLE_ROTOR_LOCK |-> 136,
      ENABLE_MICROSTEP_INTERPOLATION |-> 137, CAN_BAUD_RATE |-> 138,
      CAN_ID |-> 139, RESPONSE_MODE |-> 140, DISABLE_BUTTONS |-> 143,
      SET_GROUP_ID |-> 141, WRITE_IO |-> 54, HOME_SETTINGS |-> 144,
      GO_HOME |-> 145, SET_ZERO |-> 146, SET_BLIND_LIMIT |-> 148,
      SET_LIMIT_PORT_REMAP |-> 158, POWER_ON_HOMING_MODE |-> 154,
      FACTORY_RESET |-> 63, REBOOT_DRIVER |-> 65,
      SET_PROTECTION_SETTINGS |-> 157, READ_PARAM |-> 0,
      QUERY_STATUS |-> 241, ENABLE_MOTOR |-> 243, EMERGENCY_STOP |-> 247,
      SET_SPEED |-> 246, SET_POWER_ON_SPEED |-> 255, SEND_STEP |-> 253,
      SEEK_POS_BY_STEPS |-> 254, SEND_ANGLE |-> 244,
      SEEK_POS_BY_ANGLE |-> 245 ]

RECURSIVE checksum_loop(_, _, _)
\* the for loop of Commands.checksum from payload[k] on
checksum_loop(cs, payload, k) ==
    IF k > Len(payload) THEN cs
    ELSE checksum_loop(BitAnd(cs + payload[k], 255), payload, k + 1)

RECURSIVE sum_loop(_, _, _)
sum_loop(cs, payload, k) ==
    IF k > Len(payload) THEN cs
    ELSE sum_loop(cs + payload[k], payload, k + 1)

RECURSIVE low7_loop(_, _, _)
low7_loop(cs, payload, k) ==
    IF k > Len(payload) THEN cs
    ELSE low7_loop(BitAnd(cs + payload[k], 127), payload, k + 1)

\* Commands.checksum masking the running sum with 0x7F
checksum_low7(device_id, payload) == low7_loop(device_id, payload, 1)

\* Commands.checksum that never masks the running sum
checksum_unmasked(device_id, payload) == sum_loop(device_id, payload, 1)

\* Commands.checksum that starts from 0 instead of the device id
checksum_no_seed(device_id, payload) == checksum_loop(0, payload, 1)

checksum(device_id, payload) == checksum_loop(device_id, payload, 1)

\* value.to_bytes(length, 'big', signed=signed): the bytes, most significant
\* first, or OverflowError when the value does not fit
to_bytes_big(value, length, signed) ==
    LET fits == IF signed
                THEN 0 - (256 ^ length) \div 2 <= value
                        /\ value < (256 ^ length) \div 2
                ELSE 0 <= value /\ value < 256 ^ length
    IN  IF ~fits THEN Raise("OverflowError")
        ELSE Bytes([i \in 1 .. length |->
                        (value \div (256 ^ (length - i))) % 256])

\* the speed-properties bytes with the direction bit inverted
speed_properties_inverted(dir, speed) ==
    << BitOr(Shr(BitAnd(speed, 3840), 8), Shl(1 - BitAnd(dir, 1), 7)),
       BitAnd(speed, 255) >>

\* the two speed-properties bytes of set_speed and send_step
speed_properties(dir, speed) ==
    << BitOr(Shr(BitAnd(speed, 3840), 8), Shl(BitAnd(dir, 1), 7)),
       BitAnd(speed, 255) >>

\* payload with its checksum appended, as a message to driver_can_id
with_checksum(driver_can_id, payload) ==
    Msg(driver_can_id, Append(payload, checksum(driver_can_id, payload)))

\* set_speed with the two speed-properties bytes in the other order
set_speed_swapped(driver_can_id, dir, speed, accel) ==
    LET props == speed_properties(dir, speed)
        a == to_bytes_big(accel, 1, FALSE)
    IN  IF a.kind = "error" THEN a
        ELSE with_checksum(driver_can_id,
                           <<SET_SPEED, props[2], props[1]>> \o a.val)

\* set_speed up to the construction of the message
set_speed(driver_can_id, dir, speed, accel) ==
    LET props == speed_properties(dir, speed)
        a == to_bytes_big(accel, 1, FALSE)
    IN  IF a.kind = "error" THEN a
        ELSE with_checksum(driver_can_id, <<SET_SPEED>> \o props \o a.val)

\* send_step with the step count least significant byte first
send_step_little_endian(driver_can_id, dir, speed, accel, steps) ==
    LET props == speed_properties(dir, speed)
        a == to_bytes_big(accel, 1, FALSE)
        s == to_bytes_big(steps, 3, FALSE)
    IN  IF a.kind = "error" THEN a
        ELSE IF s.kind = "error" THEN s
        ELSE with_checksum(driver_can_id,
                           <<SEND_STEP>> \o props \o a.val
                               \o <<s.val[3], s.val[2], s.val[1]>>)

\* send_step up to the construction of the message
send_step(driver_can_id, dir, speed, accel, steps) ==
    LET props == speed_properties(dir, speed)
        a == to_bytes_big(accel, 1, FALSE)
        s == to_bytes_big(steps, 3, FALSE)
    IN  IF a.kind = "error" THEN a
        ELSE IF s.kind = "error" THEN s
        ELSE with_checksum(driver_can_id,
                           <<SEND_STEP>> \o props \o a.val \o s.val)

\* seek_pos_by_steps converting the position as an unsigned integer
seek_pos_by_steps_unsigned(driver_can_id, speed, accel, pos) ==
    LET v == to_bytes_big(speed, 2, FALSE)
        a == to_bytes_big(accel, 1, FALSE)
        p == to_bytes_big(pos, 3, FALSE)
    IN  IF v.kind = "error" THEN v
        ELSE IF a.kind = "error" THEN a
        ELSE IF p.kind = "error" THEN p
        ELSE with_checksum(driver_can_id,
                           <<SEEK_POS_BY_STEPS>> \o v.val \o a.val \o p.val)

\* seek_pos_by_steps up to the construction of the message
seek_pos_by_steps(driver_can_id, speed, accel, pos) ==
    LET v == to_bytes_big(speed, 2, FALSE)
        a == to_bytes_big(accel, 1, FALSE)
        p == to_bytes_big(pos, 3, TRUE)
    IN  IF v.kind = "error" THEN v
        ELSE IF a.kind = "error" THEN a
        ELSE IF p.kind = "error" THEN p
        ELSE with_checksum(driver_can_id,
                           <<SEEK_POS_BY_STEPS>> \o v.val \o a.val \o p.val)

format_canmsg(msg) == <<msg.arbitration_id>> \o msg.data

\* parse_response that checks the length of the frame and never its
\* checksum
parse_response_unverified(device_id, frame, expected_field_width) ==
    IF Len(frame) # 2 + expected_field_width
    THEN Raise("MalformedFrameError")
    ELSE Bytes(SubSeq(frame, 2, Len(frame) - 1))

\* parse_response of a response frame [opcode_echo][field bytes][checksum]:
\* it fails with ChecksumError if the checksum recomputed over all bytes but
\* the last is not the last byte, and with MalformedFrameError if the frame
\* is not 2 + expected_field_width bytes long (a frame with no byte has no
\* checksum to compare); the result is the field bytes
parse_response(device_id, frame, expected_field_width) ==
    IF frame = <<>> THEN Raise("MalformedFrameError")
    ELSE IF checksum(device_id, SubSeq(frame, 1, Len(frame) - 1))
                # frame[Len(frame)]
    THEN Raise("ChecksumError")
    ELSE IF Len(frame) # 2 + expected_field_width
    THEN Raise("MalformedFrameError")
    ELSE Bytes(SubSeq(frame, 2, Len(frame) - 1))

(***************************************************************************)
(* Inputs.                                                                 *)
(***************************************************************************)
Byte == 0 .. 255

\* bytes on both sides of the 7-bit boundary
SampleBytes == {0, 1, 127, 128, 255}

\* high elements of a pair: the legal 0 and 1, and stray values
SampleHigh == {0, 1, 2, 3, 255}

\* the docstring example of firmatify: [0xEF, 0xBE, 0xAD, 0xDE]
DocPack == <<239, 190, 173, 222>>

ByteSeqs ==
    UNION {[1 .. n -> SampleBytes] : n \in 0 .. MaxLen}
        \cup {<<p>> : p \in Byte}
        \cup {<<lo, hi>> : lo \in Byte, hi \in SampleHigh}
        \cup {DocPack}

\* integers around the widths' boundaries, as limbs (hi, lo):
\* 0, 2^7, 2^8, 2^15, 2^16, 2^24, 2^31, 2^32, -2^15, -2^31
Pivots ==
    { <<0, 0>>, <<0, 128>>, <<0, 256>>, <<0, 32768>>, <<1, 0>>, <<256, 0>>,
      <<32768, 0>>, <<65536, 0>>, <<-1, 32768>>, <<-32768, 0>> }

\* the integers of the docstrings and of the test script:
\* 0xDEADBEEF, 0xBEEF, 1000, 32767, 20, -10, 0, 100, 10, -50
DocIntegers ==
    { Wide(57005, 48879), Wide(0, 48879), Wide(0, 1000), Wide(0, 32767),
      Wide(0, 20), Wide(0, -10), Wide(0, 0), Wide(0, 100), Wide(0, 10),
      Wide(0, -50) }

IntSamples ==
    {Wide(p[1], p[2] + d) : p \in Pivots, d \in (0 - Spread) .. Spread}
        \cup DocIntegers

Offsets == 0 .. MaxOffset

\* device ids: byte-sized ones and CAN ids above a byte (up to 0x7FF)
DeviceIds == {0, 1, 2, 127, 128, 255, 256, 2047}

\* payloads handed to Commands.checksum
Payloads ==
    UNION {[1 .. n -> SampleBytes] : n \in 0 .. MaxLen}
        \cup {<<p>> : p \in Byte}

DriverIds == {1, 2, 255, 2047}

\* speeds around 0, 2^8, 2^12 and 2^16, and those of the test: 320, 600
Speeds ==
    {p + d : p \in {0, 256, 4096, 65536}, d \in (0 - Spread) .. Spread}
        \cup {320, 600, 3840}

Accels == {-1, 0, 2, 255, 256}

\* step counts around 0 and 2^24, and those of the test: 20, 64000
StepCounts == {-1, 0, 20, 64000, 16777215, 16777216}

\* positions around 0, -2^23 and 2^23, and those of the test: +-0x4000
Positions == {0, 16384, -16384, 8388607, 8388608, -8388608, -8388609}

\* the bus argument: None, a bus whose send succeeds, one whose send
\* raises can.CanError
Buses == {"none", "up", "down"}

\* motor ids: the motor of MOTOR_IDS, 2, and bytes on both sides of 0x7F;
\* one byte each, as bytearray([motor]) requires
Motors == {2} \cup SampleBytes

\* what is added to the checksum byte of a response: 0 leaves it valid
Corruptions == {0, 1, 128, 255}

\* expected field widths of a response
FieldWidths == 0 .. MaxLen

\* one recorded call: the function, its integer parameter (an offset or a
\* device id, 0 when it has none) and its signed flag
Call(fn, p, s) == [fn |-> fn, p |-> p, s |-> s]

\* the names of the functions called so far, in order
Chain == [i \in DOMAIN ops |-> ops[i].fn]

(***************************************************************************)
(* Actions: one call of a function on the current value.                   *)
(***************************************************************************)
Firmatify ==
    /\ out.kind = "bytes"
    /\ Len(ops) < MaxOps
    /\ out' = Bytes(firmatify(out.val))
    /\ ops' = Append(ops, Call("firmatify", 0, FALSE))
    /\ UNCHANGED <<input, attempts, printed, calls, frames>>

Defirmatify ==
    /\ out.kind = "bytes"
    /\ Len(ops) < MaxOps
    /\ out' = defirmatify(out.val)
    /\ ops' = Append(ops, Call("defirmatify", 0, FALSE))
    /\ UNCHANGED <<input, attempts, printed, calls, frames>>

Pack16 ==
    /\ out.kind = "int"
    /\ Len(ops) < MaxOps
    /\ out' = Bytes(pack_16(out.val))
    /\ ops' = Append(ops, Call("pack_16", 0, FALSE))
    /\ UNCHANGED <<input, attempts, printed, calls, frames>>

Pack32 ==
    /\ out.kind = "int"
    /\ Len(ops) < MaxOps
    /\ out' = Bytes(pack_32(out.val))
    /\ ops' = Append(ops, Call("pack_32", 0, FALSE))
    /\ UNCHANGED <<input, attempts, printed, calls, frames>>

Decode32 ==
    /\ out.kind = "bytes"
    /\ Len(ops) < MaxOps
    /\ \E offset \in Offsets, signed \in BOOLEAN :
          /\ out' = Integer(decode_32(out.val, offset, signed))
          /\ ops' = Append(ops, Call("decode_32", offset, signed))
    /\ UNCHANGED <<input, attempts, printed, calls, frames>>

Decode16 ==
    /\ out.kind = "bytes"
    /\ Len(ops) < MaxOps
    /\ \E offset \in Offsets, signed \in BOOLEAN :
          /\ out' = Integer(decode_16(out.val, offset, signed))
          /\ ops' = Append(ops, Call("decode_16", offset, signed))
    /\ UNCHANGED <<input, attempts, printed, calls, frames>>

Decode8 ==
    /\ out.kind = "bytes"
    /\ Len(ops) < MaxOps
    /\ \E offset \in Offsets, signed \in BOOLEAN :
          /\ out' = Integer(decode_8(out.val, offset, signed))
          /\ ops' = Append(ops, Call("decode_8", offset, signed))
    /\ UNCHANGED <<input, attempts, printed, calls, frames>>

Checksum ==
    /\ input.kind = "idle"
    /\ \E device_id \in DeviceIds, payload \in Payloads :
          /\ input' = [kind |-> "checksum",
                        val |-> [device_id |-> device_id, payload |-> payload]]
          /\ out' = Num(checksum(device_id, payload))
          /\ ops' = Append(ops, Call("checksum", device_id, FALSE))
    /\ UNCHANGED <<attempts, printed, calls, frames>>

\* the end of a frame builder that sends once more after a can.CanError
Transmit_retry(bus, r) ==
    /\ attempts' = IF r.kind = "msg" /\ bus = "up"
                    THEN Append(attempts, r.val)
                    ELSE IF r.kind = "msg" /\ bus = "down"
                    THEN Append(Append(attempts, r.val), r.val)
                    ELSE attempts
    /\ printed' = IF r.kind = "msg" /\ bus = "down"
                   THEN printed + 1 ELSE printed

\* the end of the three frame builders: with a bus, one bus.send(msg); a
\* can.CanError is caught and reported with print
Transmit(bus, r) ==
    /\ attempts' = IF r.kind = "msg" /\ bus # "none"
                    THEN Append(attempts, r.val) ELSE attempts
    /\ printed' = IF r.kind = "msg" /\ bus = "down"
                   THEN printed + 1 ELSE printed

SetSpeed ==
    /\ input.kind = "idle"
    /\ \E id \in DriverIds, dir \in {0, 1}, speed \in Speeds,
          accel \in Accels, bus \in Buses :
          /\ input' = [kind |-> "set_speed",
                        val |-> [id |-> id, dir |-> dir, speed |-> speed,
                                 accel |-> accel, bus |-> bus]]
          /\ out' = set_speed(id, dir, speed, accel)
          /\ ops' = Append(ops, Call("set_speed", id, FALSE))
          /\ Transmit(bus, out')
    /\ UNCHANGED <<calls, frames>>

SendStep ==
    /\ input.kind = "idle"
    /\ \E id \in DriverIds, dir \in {0, 1}, speed \in Speeds,
          accel \in Accels, steps \in StepCounts, bus \in Buses :
          /\ input' = [kind |-> "send_step",
                        val |-> [id |-> id, dir |-> dir, speed |-> speed,
                                 accel |-> accel, steps |-> steps, bus |-> bus]]
          /\ out' = send_step(id, dir, speed, accel, steps)
          /\ ops' = Append(ops, Call("send_step", id, FALSE))
          /\ Transmit(bus, out')
    /\ UNCHANGED <<calls, frames>>

SeekPosBySteps ==
    /\ input.kind = "idle"
    /\ \E id \in DriverIds, speed \in Speeds, accel \in Accels,
          pos \in Positions, bus \in Buses :
          /\ input' = [kind |-> "seek_pos_by_steps",
                        val |-> [id |-> id, speed |-> speed, accel |-> accel,
                                 pos |-> pos, bus |-> bus]]
          /\ out' = seek_pos_by_steps(id, speed, accel, pos)
          /\ ops' = Append(ops, Call("seek_pos_by_steps", id, FALSE))
          /\ Transmit(bus, out')
    /\ UNCHANGED <<calls, frames>>

\* a frame that went out on the bus arrives with one data byte changed
Corrupt ==
    /\ out.kind = "msg"
    /\ Len(ops) = 1
    /\ input.val.bus = "up"
    /\ \E pos \in 1 .. Len(out.val.data), c \in Corruptions \ {0} :
          /\ out' = [kind |-> "received",
                      val |-> [arbitration_id |-> out.val.arbitration_id,
                               data |-> [out.val.data EXCEPT
                                            ![pos] = (@ + c) % 256]]]
          /\ ops' = Append(ops, Call("corrupt", pos, FALSE))
    /\ UNCHANGED <<input, attempts, printed, calls, frames>>

\* a command is looked up by name, as in payload = [Commands.SET_SPEED]
CommandValue ==
    /\ input.kind = "idle"
    /\ \E name \in DOMAIN Commands :
          /\ input' = [kind |-> "command", val |-> name]
          /\ out' = Num(Commands[name])
          /\ ops' = Append(ops, Call("Commands", 0, FALSE))
    /\ UNCHANGED <<attempts, printed, calls, frames>>

\* a response arrives whose last byte is its checksum or a corrupted one
ParseResponse ==
    /\ input.kind = "idle"
    /\ \E device_id \in DriverIds, body \in Payloads, c \in Corruptions,
          width \in FieldWidths :
          LET frame == Append(body, (checksum(device_id, body) + c) % 256)
          IN  /\ input' = [kind |-> "parse_response",
                            val |-> [device_id |-> device_id, frame |-> frame,
                                     width |-> width, corruption |-> c]]
              /\ out' = parse_response(device_id, frame, width)
              /\ ops' = Append(ops, Call("parse_response", device_id, FALSE))
    /\ UNCHANGED <<attempts, printed, calls, frames>>

FormatCanmsg ==
    /\ out.kind = "msg"
    /\ Len(ops) < MaxOps
    /\ out' = Bytes(format_canmsg(out.val))
    /\ ops' = Append(ops, Call("format_canmsg", 0, FALSE))
    /\ UNCHANGED <<input, attempts, printed, calls, frames>>

\* the script sends a SET_SPEED request; the payload comes back as the
\* response to the handler registered for the command
RequestSetSpeed ==
    /\ input.kind = "idle"
    /\ \E motor \in Motors, speed \in IntSamples :
          /\ input' = [kind |-> "request_set_speed",
                        val |-> [motor |-> motor, speed |-> speed]]
          /\ out' = Bytes(request_set_speed(motor, speed))
          /\ ops' = Append(ops, Call("request_set_speed", motor, FALSE))
    /\ UNCHANGED <<attempts, printed, calls, frames>>

RequestSendStep ==
    /\ input.kind = "idle"
    /\ \E motor \in Motors, steps \in IntSamples, speed \in IntSamples :
          /\ input' = [kind |-> "request_send_step",
                        val |-> [motor |-> motor, steps |-> steps,
                                 speed |-> speed]]
          /\ out' = Bytes(request_send_step(motor, steps, speed))
          /\ ops' = Append(ops, Call("request_send_step", motor, FALSE))
    /\ UNCHANGED <<attempts, printed, calls, frames>>

RequestSeekPos ==
    /\ input.kind = "idle"
    /\ \E motor \in Motors, pos \in IntSamples, speed \in IntSamples :
          /\ input' = [kind |-> "request_seek_pos",
                        val |-> [motor |-> motor, pos |-> pos,
                                 speed |-> speed]]
          /\ out' = Bytes(request_seek_pos(motor, pos, speed))
          /\ ops' = Append(ops, Call("request_seek_pos", motor, FALSE))
    /\ UNCHANGED <<attempts, printed, calls, frames>>

\* the response loses its last pair of elements on the way to the handler
Truncate ==
    /\ out.kind = "bytes"
    /\ Len(ops) < MaxOps - 1
    /\ Len(out.val) >= 2
    /\ out' = Bytes(SubSeq(out.val, 1, Len(out.val) - 2))
    /\ ops' = Append(ops, Call("truncate", 0, FALSE))
    /\ UNCHANGED <<input, attempts, printed, calls, frames>>

\* the handler registered for the command of the request gets the response
OnSetSpeed ==
    /\ out.kind = "bytes"
    /\ input.kind = "request_set_speed"
    /\ out' = on_set_speed(out.val)
    /\ ops' = Append(ops, Call("on_set_speed", 0, FALSE))
    /\ UNCHANGED <<input, attempts, printed, calls, frames>>

OnSendStep ==
    /\ out.kind = "bytes"
    /\ input.kind = "request_send_step"
    /\ out' = on_send_step(out.val)
    /\ ops' = Append(ops, Call("on_send_step", 0, FALSE))
    /\ UNCHANGED <<input, attempts, printed, calls, frames>>

OnSeekPosition ==
    /\ out.kind = "bytes"
    /\ input.kind = "request_seek_pos"
    /\ out' = on_seek_position(out.val)
    /\ ops' = Append(ops, Call("on_seek_position", 0, FALSE))
    /\ UNCHANGED <<input, attempts, printed, calls, frames>>

(***************************************************************************)
(* The 7-bit framing codec applied to byte sequences.                      *)
(***************************************************************************)
SevenBitInit ==
    /\ \E x \in ByteSeqs : input = Bytes(x)
    /\ ops = <<>>
    /\ out = input
    /\ attempts = <<>>
    /\ printed = 0
    /\ calls = <<>>
    /\ frames = <<>>

SevenBitNext == Firmatify \/ Defirmatify

SevenBitSpec == SevenBitInit /\ [][SevenBitNext]_vars

\* an encoded frame as firmatify produces them: even length, every pair a
\* low element and a high element (Python's odd index is an even position)
EvenLength(y) == Len(y) % 2 = 0
HighElementsAreBits(y) == \A k \in 1 .. Len(y) : k % 2 = 0 => y[k] \in {0, 1}
LowElementsAreSevenBit(y) == \A k \in 1 .. Len(y) : k % 2 = 1 => y[k] <= 127

\* C1: decoding what firmatify encoded gives back the byte sequence, for
\* every byte sequence including the empty one.
C1_SevenBitRoundTrip ==
    Chain = <<"firmatify", "defirmatify">> => out = Bytes(input.val)

C1_Witness ==
    /\ Chain = <<"firmatify", "defirmatify">>
    /\ Len(input.val) >= 2
    /\ \E k \in 1 .. Len(input.val) : input.val[k] >= 128
    /\ out = Bytes(input.val)

\* C2: firmatify emits for each payload byte p, in payload order, p & 0x7F
\* then (p & 0x80) >> 7: the output is twice as long as the payload, its
\* low elements are at most 0x7F and its high elements are 0 or 1.
C2_FirmatifyLayout ==
    Chain = <<"firmatify">> =>
        /\ out.kind = "bytes"
        /\ Len(out.val) = 2 * Len(input.val)
        /\ \A k \in 1 .. Len(input.val) :
              /\ out.val[2 * k - 1] = input.val[k] % 128
              /\ out.val[2 * k] = (input.val[k] \div 128) % 2
        /\ LowElementsAreSevenBit(out.val)
        /\ HighElementsAreBits(out.val)

C2_Witness ==
    /\ Chain = <<"firmatify">>
    /\ input.val = <<128, 127, 255>>
    /\ out.val = <<0, 1, 127, 0, 127, 1>>

\* C3 as stated: encoding what defirmatify decoded gives back every
\* even-length frame whose high elements are each 0 or 1.
C3_ReverseRoundTrip_AsStated ==
    (/\ Chain = <<"defirmatify", "firmatify">>
     /\ EvenLength(input.val)
     /\ HighElementsAreBits(input.val)) => out = Bytes(input.val)

\* C3 amended: encoding what defirmatify decoded gives back every
\* even-length frame whose high elements are each 0 or 1 and whose low
\* elements are each at most 0x7F.
C3_ReverseRoundTrip ==
    (/\ Chain = <<"defirmatify", "firmatify">>
     /\ EvenLength(input.val)
     /\ HighElementsAreBits(input.val)
     /\ LowElementsAreSevenBit(input.val)) => out = Bytes(input.val)

C3_Witness ==
    /\ Chain = <<"defirmatify", "firmatify">>
    /\ input.val = <<127, 1>>
    /\ out = Bytes(input.val)

\* C4: defirmatify of an odd-length frame fails, whatever the frame holds,
\* and returns no decoded bytes: the call raises IndexError at the dangling
\* last element, or ValueError at an earlier pair that does not fit a byte.
C4_OddLengthFails ==
    (/\ Chain = <<"defirmatify">>
     /\ ~EvenLength(input.val)) =>
        /\ out.kind = "error"
        /\ out.val \in {"IndexError", "ValueError"}
        /\ out.val = "ValueError" <=>
              \E k \in 1 .. Len(input.val) - 1 :
                  k % 2 = 1 /\ input.val[k + 1] > 1

C4_Witness ==
    /\ Chain = <<"defirmatify">>
    /\ Len(input.val) = 3
    /\ out = Raise("IndexError")

(***************************************************************************)
(* The integer codec applied to integers, alone and through the framing.   *)
(***************************************************************************)
IntegerInit ==
    /\ \E w \in IntSamples : input = Integer(w)
    /\ ops = <<>>
    /\ out = input
    /\ attempts = <<>>
    /\ printed = 0
    /\ calls = <<>>
    /\ frames = <<>>

IntegerNext ==
    \/ Pack16
    \/ Pack32
    \/ Decode8
    \/ Decode16
    \/ Decode32
    \/ Firmatify
    \/ Defirmatify

IntegerSpec == IntegerInit /\ [][IntegerNext]_vars

\* byte i of a two-limb integer, (v >> (8 * i)) & 0xFF, for i in 0..3
ByteOf(w, i) ==
    IF i < 2 THEN (w.lo \div (256 ^ i)) % 256
    ELSE (w.hi \div (256 ^ (i - 2))) % 256

\* v fits `width` bytes with the given signedness
Fits(w, width, signed) ==
    CASE width = 2 /\ ~signed -> w.hi = 0
      [] width = 2 /\ signed -> \/ w.hi = 0 /\ w.lo < 32768
                                \/ w.hi = -1 /\ w.lo >= 32768
      [] width = 4 /\ ~signed -> w.hi \in 0 .. 65535
      [] width = 4 /\ signed -> w.hi \in -32768 .. 32767

\* C5: pack_32 of v in 0..2^32-1 is the 4 bytes (v >> (8*i)) & 0xFF for
\* i = 0..3 in that order, pack_16 of v in 0..2^16-1 the 2 bytes for
\* i = 0..1; pack_32(0xDEADBEEF) is [0xEF, 0xBE, 0xAD, 0xDE].
C5_LittleEndianPacking ==
    /\ (Chain = <<"pack_32">> /\ Fits(input.val, 4, FALSE)) =>
          out = Bytes([i \in 1 .. 4 |-> ByteOf(input.val, i - 1)])
    /\ (Chain = <<"pack_16">> /\ Fits(input.val, 2, FALSE)) =>
          out = Bytes([i \in 1 .. 2 |-> ByteOf(input.val, i - 1)])
    /\ (Chain = <<"pack_32">> /\ input.val = Wide(57005, 48879)) =>
          out = Bytes(<<239, 190, 173, 222>>)

C5_Witness ==
    /\ Chain = <<"pack_32">>
    /\ input.val = Wide(57005, 48879)
    /\ out = Bytes(<<239, 190, 173, 222>>)

\* C6: an integer that fits 2 (4) bytes with a signedness is returned by
\* decode_16 (decode_32) at offset 0 with that signedness from the bytes of
\* pack_16 (pack_32); a negative one is packed as its two's-complement
\* bytes and decodes back negative.
C6_IntegerRoundTrip ==
    /\ (Chain = <<"pack_16">> /\ Fits(input.val, 2, TRUE)) =>
          out = Bytes([i \in 1 .. 2 |-> ByteOf(input.val, i - 1)])
    /\ (Chain = <<"pack_32">> /\ Fits(input.val, 4, TRUE)) =>
          out = Bytes([i \in 1 .. 4 |-> ByteOf(input.val, i - 1)])
    /\ (Chain = <<"pack_16">> /\ input.val = Wide(0, -10)) =>
          out = Bytes(<<246, 255>>)
    /\ (/\ Chain = <<"pack_16", "decode_16">>
         /\ ops[2].p = 0
         /\ Fits(input.val, 2, ops[2].s)) => out = Integer(input.val)
    /\ (/\ Chain = <<"pack_32", "decode_32">>
         /\ ops[2].p = 0
         /\ Fits(input.val, 4, ops[2].s)) => out = Integer(input.val)

C6_Witness ==
    /\ Chain = <<"pack_32", "decode_32">>
    /\ ops[2].p = 0
    /\ ops[2].s
    /\ input.val = Wide(-32768, 1)
    /\ out = Integer(input.val)

(***************************************************************************)
(* The MKS command frames: one call of the checksum or of a frame builder. *)
(***************************************************************************)
BusInit ==
    /\ input = [kind |-> "idle", val |-> <<>>]
    /\ ops = <<>>
    /\ out = input
    /\ attempts = <<>>
    /\ printed = 0
    /\ calls = <<>>
    /\ frames = <<>>

BusNext ==
    \/ Checksum
    \/ SetSpeed
    \/ SendStep
    \/ SeekPosBySteps
    \/ ParseResponse
    \/ CommandValue
    \/ Corrupt
    \/ FormatCanmsg

BusSpec == BusInit /\ [][BusNext]_vars

RECURSIVE SumOf(_)
\* the sum of the elements of a sequence
SumOf(q) == IF q = <<>> THEN 0 ELSE q[1] + SumOf(Tail(q))

\* all but the last element
Front(q) == SubSeq(q, 1, Len(q) - 1)

\* C7: for a device id in 0..255, Commands.checksum is the device id plus
\* the sum of the payload bytes, modulo 256.
C7_ChecksumValue ==
    (Chain = <<"checksum">> /\ input.val.device_id \in 0 .. 255) =>
        out = Num((input.val.device_id + SumOf(input.val.payload)) % 256)

C7_Witness ==
    /\ Chain = <<"checksum">>
    /\ input.val.device_id = 255
    /\ input.val.payload = <<255, 128, 1>>
    /\ out = Num(127)

\* the frame builders, their opcodes and the lengths of their frames
Builders == {"set_speed", "send_step", "seek_pos_by_steps"}
OpcodeOf(fn) ==
    CASE fn = "set_speed" -> 246
      [] fn = "send_step" -> 253
      [] fn = "seek_pos_by_steps" -> 254
DataLengthOf(fn) == IF fn = "set_speed" THEN 5 ELSE 8

\* a frame builder was called and returned a message
Built == Len(ops) = 1 /\ ops[1].fn \in Builders /\ out.kind = "msg"

\* C8: every frame returned by set_speed, send_step or seek_pos_by_steps
\* starts with its opcode (0xF6, 0xFD, 0xFE) and ends with the sum modulo
\* 256 of the device id and every preceding data byte; the device id is
\* the arbitration id and is not one of the data bytes.
C8_FrameChecksum ==
    Built =>
        LET data == out.val.data
        IN  /\ Len(data) = DataLengthOf(ops[1].fn)
            /\ data[1] = OpcodeOf(ops[1].fn)
            /\ data[Len(data)] = (input.val.id + SumOf(Front(data))) % 256
            /\ out.val.arbitration_id = input.val.id

C8_Witness ==
    /\ Built
    /\ ops[1].fn = "seek_pos_by_steps"
    /\ input.val.id = 2047
    /\ input.val.pos < 0
    /\ out.val.data[8] = (2047 + SumOf(Front(out.val.data))) % 256

\* the set_speed call of the claims about the speed properties: a speed of
\* 12 bits and an acceleration of one byte
SpeedCall ==
    /\ Chain = <<"set_speed">>
    /\ input.val.speed \in 0 .. 4095
    /\ input.val.accel \in 0 .. 255

\* plain 16-bit encodings of a speed
BigEndian16(v) == <<(v \div 256) % 256, v % 256>>
LittleEndian16(v) == <<v % 256, (v \div 256) % 256>>

\* the frame set_speed is to return for the call in `input`
SpeedFrameIsPacked ==
    LET a == input.val
        b1 == ((a.speed \div 256) % 16) + 128 * a.dir
        b2 == a.speed % 256
    IN  /\ out.kind = "msg"
        /\ out.val.data =
              <<246, b1, b2, a.accel, (a.id + 246 + b1 + b2 + a.accel) % 256>>
        /\ (out.val.data[2] \div 16) % 8 = 0

\* C9 as stated: for every speed in 0..4095, direction bit and acceleration
\* in 0..255 set_speed returns [0xF6, ((speed >> 8) & 0x0F) | (d << 7),
\* speed & 0xFF, a, checksum] with bits 6..4 of the first field byte 0, and
\* the field is not the plain 16-bit little- or big-endian integer of speed.
C9_SpeedPacking_AsStated ==
    SpeedCall =>
        /\ SpeedFrameIsPacked
        /\ SubSeq(out.val.data, 2, 3) # BigEndian16(input.val.speed)
        /\ SubSeq(out.val.data, 2, 3) # LittleEndian16(input.val.speed)

\* C9 amended: the same frame layout; the field differs from the plain
\* 16-bit little- and big-endian integers of speed whenever the direction
\* bit is 1, and is the big-endian integer of speed when it is 0.
C9_SpeedPacking ==
    SpeedCall =>
        /\ SpeedFrameIsPacked
        /\ input.val.dir = 1 =>
              /\ SubSeq(out.val.data, 2, 3) # BigEndian16(input.val.speed)
              /\ SubSeq(out.val.data, 2, 3) # LittleEndian16(input.val.speed)
        /\ input.val.dir = 0 =>
              SubSeq(out.val.data, 2, 3) = BigEndian16(input.val.speed)

C9_Witness ==
    /\ SpeedCall
    /\ input.val.speed = 3840
    /\ input.val.dir = 1
    /\ input.val.accel = 255
    /\ SubSeq(out.val.data, 2, 4) = <<143, 0, 255>>

\* the call in `input` is fn with device id 1, speed 320, acceleration 2
\* and direction value dir (64000 steps for send_step), and `out` is its
\* message laid out by format_canmsg
Scenario(fn, dir) ==
    /\ Chain = <<fn, "format_canmsg">>
    /\ input.val.id = 1
    /\ input.val.speed = 320
    /\ input.val.accel = 2
    /\ input.val.dir = dir
    /\ fn = "send_step" => input.val.steps = 64000

\* C10 as stated: with device id 1, speed 320 and acceleration 2, direction
\* value 1 gives 01 F6 01 40 02 3A and (64000 steps) 01 FD 01 40 02 00 FA
\* 00 3B, and direction value 0 gives 01 F6 81 40 02 BA.
C10_DirectionScenarios_AsStated ==
    /\ Scenario("set_speed", 1) => out.val = <<1, 246, 1, 64, 2, 58>>
    /\ Scenario("send_step", 1) =>
          out.val = <<1, 253, 1, 64, 2, 0, 250, 0, 59>>
    /\ Scenario("set_speed", 0) => out.val = <<1, 246, 129, 64, 2, 186>>

\* C10 amended: direction value 0 gives 01 F6 01 40 02 3A and (64000
\* steps) 01 FD 01 40 02 00 FA 00 3B, and direction value 1 gives
\* 01 F6 81 40 02 BA.
C10_DirectionScenarios ==
    /\ Scenario("set_speed", 0) => out.val = <<1, 246, 1, 64, 2, 58>>
    /\ Scenario("send_step", 0) =>
          out.val = <<1, 253, 1, 64, 2, 0, 250, 0, 59>>
    /\ Scenario("set_speed", 1) => out.val = <<1, 246, 129, 64, 2, 186>>

C10_Witness ==
    /\ Scenario("send_step", 0)
    /\ out = Bytes(<<1, 253, 1, 64, 2, 0, 250, 0, 59>>)

\* a value as `width` bytes, most significant first (two's complement for a
\* negative value)
BigEndian(v, width) == [i \in 1 .. width |-> (v \div (256 ^ (width - i))) % 256]

\* C11: for a speed in 0..4095, a direction bit d, an acceleration in
\* 0..255 and a step count in 0..2^24-1, send_step returns the 8 data bytes
\* [0xFD, ((speed >> 8) & 0x0F) | (d << 7), speed & 0xFF, a, the step count
\* as 3 bytes big-endian, checksum]; id 1, d = 0, speed 320, a = 2 and
\* 64000 steps give 01 FD 01 40 02 00 FA 00 3B, and d = 1 gives
\* 01 FD 81 40 02 00 FA 00 BB.
C11_SendStepLayout ==
    /\ (/\ Chain = <<"send_step">>
         /\ input.val.speed \in 0 .. 4095
         /\ input.val.accel \in 0 .. 255
         /\ input.val.steps \in 0 .. 16777215) =>
          LET a == input.val
              body == <<253, ((a.speed \div 256) % 16) + 128 * a.dir,
                        a.speed % 256, a.accel>> \o BigEndian(a.steps, 3)
          IN  /\ out.kind = "msg"
              /\ Len(out.val.data) = 8
              /\ out.val.data = Append(body, (a.id + SumOf(body)) % 256)
    /\ Scenario("send_step", 0) =>
          out.val = <<1, 253, 1, 64, 2, 0, 250, 0, 59>>
    /\ Scenario("send_step", 1) =>
          out.val = <<1, 253, 129, 64, 2, 0, 250, 0, 187>>

C11_Witness ==
    /\ Chain = <<"send_step">>
    /\ input.val.steps = 16777215
    /\ input.val.speed = 4095
    /\ input.val.dir = 1
    /\ input.val.accel = 255
    /\ input.val.id = 2
    /\ out.kind = "msg"
    /\ SubSeq(out.val.data, 1, 7) = <<253, 143, 255, 255, 255, 255, 255>>

\* the call in `input` is seek_pos_by_steps with device id 1, speed 600,
\* acceleration 2 and position pos, and `out` is its message laid out by
\* format_canmsg
SeekScenario(pos) ==
    /\ Chain = <<"seek_pos_by_steps", "format_canmsg">>
    /\ input.val.id = 1
    /\ input.val.speed = 600
    /\ input.val.accel = 2
    /\ input.val.pos = pos

\* C12: for a speed in 0..65535, an acceleration in 0..255 and a position
\* in -2^23..2^23-1, seek_pos_by_steps returns the 8 data bytes [0xFE, the
\* speed as 2 bytes big-endian, a, the position as 3 bytes big-endian two's
\* complement, checksum]; id 1, speed 600, a = 2 give
\* 01 FE 02 58 02 00 40 00 9B for position 0x4000 and
\* 01 FE 02 58 02 FF C0 00 1A for position -0x4000.
C12_SeekPosLayout ==
    /\ (/\ Chain = <<"seek_pos_by_steps">>
         /\ input.val.speed \in 0 .. 65535
         /\ input.val.accel \in 0 .. 255
         /\ input.val.pos \in -8388608 .. 8388607) =>
          LET a == input.val
              body == <<254>> \o BigEndian(a.speed, 2) \o <<a.accel>>
                          \o BigEndian(a.pos, 3)
          IN  /\ out.kind = "msg"
              /\ Len(out.val.data) = 8
              /\ out.val.data = Append(body, (a.id + SumOf(body)) % 256)
    /\ SeekScenario(16384) => out.val = <<1, 254, 2, 88, 2, 0, 64, 0, 155>>
    /\ SeekScenario(-16384) =>
          out.val = <<1, 254, 2, 88, 2, 255, 192, 0, 26>>

C12_Witness ==
    /\ SeekScenario(-16384)
    /\ out = Bytes(<<1, 254, 2, 88, 2, 255, 192, 0, 26>>)

\* the builder call in `input` has a field that does not fit its declared
\* width and signedness
FieldOutOfRange ==
    LET a == input.val
    IN  \/ /\ input.kind \in {"set_speed", "send_step"}
           /\ a.speed \notin 0 .. 4095
        \/ /\ input.kind = "seek_pos_by_steps"
           /\ a.speed \notin 0 .. 65535
        \/ a.accel \notin 0 .. 255
        \/ /\ input.kind = "send_step"
           /\ a.steps \notin 0 .. 16777215
        \/ /\ input.kind = "seek_pos_by_steps"
           /\ a.pos \notin -8388608 .. 8388607

\* C13: set_speed, send_step and seek_pos_by_steps fail with a range error,
\* return no frame and send nothing whenever a field does not fit its
\* declared width and signedness; no out-of-range value is truncated into
\* a frame.
C13_BuildersRejectOutOfRange ==
    (Len(ops) = 1 /\ ops[1].fn \in Builders /\ FieldOutOfRange) =>
        /\ out.kind = "error"
        /\ attempts = <<>>

\* C14: for every integer v, negative or too wide included, pack_16(v) and
\* pack_32(v) do not fail and return the bytes of v mod 2^16 and v mod 2^32:
\* the low-order 16 (32) bits of the two's-complement value.
C14_PackersTruncate ==
    /\ Chain = <<"pack_16">> =>
          /\ out = Bytes([i \in 1 .. 2 |-> ByteOf(input.val, i - 1)])
          /\ out.val = pack_16(Wide(0, input.val.lo))
    /\ Chain = <<"pack_32">> =>
          /\ out = Bytes([i \in 1 .. 4 |-> ByteOf(input.val, i - 1)])
          /\ out.val = pack_32(Wide(input.val.hi % 65536, input.val.lo))
    /\ (Chain = <<"pack_16">> /\ input.val = Wide(0, -50)) =>
          out.val = <<206, 255>>

C14_Witness ==
    /\ Chain = <<"pack_16">>
    /\ ~Fits(input.val, 2, FALSE)
    /\ ~Fits(input.val, 2, TRUE)
    /\ input.val = Wide(1, 1)
    /\ out = Bytes(<<1, 0>>)

\* C15: for a response frame [opcode_echo][field bytes][checksum] and a
\* device id, parse_response fails with ChecksumError whenever the device id
\* plus the sum of all bytes but the last, modulo 256, differs from the last
\* byte, whatever the length of the frame, as when only the last byte of a
\* valid frame was changed; it returns field values only when the two
\* agree.
C15_ParseRejectsCorrupted ==
    Chain = <<"parse_response">> =>
        LET a == input.val
            sum == (a.device_id + SumOf(Front(a.frame))) % 256
            last == a.frame[Len(a.frame)]
        IN  /\ sum # last => out = Raise("ChecksumError")
            /\ a.corruption # 0 => out = Raise("ChecksumError")
            /\ out.kind = "bytes" =>
                  /\ sum = last
                  /\ a.corruption = 0
                  /\ Len(a.frame) = 2 + a.width
                  /\ out.val = SubSeq(a.frame, 2, Len(a.frame) - 1)

C15_Witness ==
    /\ Chain = <<"parse_response">>
    /\ input.val.device_id = 1
    /\ input.val.frame = <<255, 1, 128, 130>>
    /\ input.val.width = 2
    /\ input.val.corruption = 1
    /\ out = Raise("ChecksumError")

\* the frame holds a pair (lo, hi) whose hi is in 2..255
HasStrayHigh(data) ==
    \E k \in 1 .. Len(data) \div 2 : data[2 * k] \in 2 .. 255

\* C18 as stated: for an even-length frame with a pair (lo, hi), hi in
\* 2..255, defirmatify raises no error and returns len(frame)/2 bytes, that
\* pair's byte corrupted by the stray bits of hi.
C18_StrayHighBits_AsStated ==
    (/\ Chain = <<"defirmatify">>
     /\ EvenLength(input.val)
     /\ HasStrayHigh(input.val)) =>
        /\ out.kind = "bytes"
        /\ Len(out.val) = Len(input.val) \div 2

\* C18, amended: for an even-length frame with a pair (lo, hi), hi in
\* 2..255, defirmatify does not mask hi, so lo | (hi << 7) is 256 or more,
\* the byte array rejects it, and the call raises ValueError and returns no
\* decoded sequence.
C18_StrayHighBits ==
    (/\ Chain = <<"defirmatify">>
     /\ EvenLength(input.val)
     /\ HasStrayHigh(input.val)) =>
        /\ out = Raise("ValueError")
        /\ \A k \in 1 .. Len(input.val) \div 2 :
              input.val[2 * k] \in 2 .. 255 =>
                  BitOr(input.val[2 * k - 1], Shl(input.val[2 * k], 7)) > 255

C18_Witness ==
    /\ Chain = <<"defirmatify">>
    /\ input.val = <<0, 2>>
    /\ out = Raise("ValueError")

\* every field of the builder call in `input` that goes through
\* int.to_bytes fits, so that the call builds its message
FieldsConvert ==
    LET a == input.val
    IN  /\ a.accel \in 0 .. 255
        /\ input.kind = "send_step" => a.steps \in 0 .. 16777215
        /\ input.kind = "seek_pos_by_steps" =>
              /\ a.speed \in 0 .. 65535
              /\ a.pos \in -8388608 .. 8388607

\* the message of the builder call in `input`, from the arguments other
\* than the bus: the opcode, the fields and the checksum
FrameOfArguments ==
    LET a == input.val
        props == <<((a.speed \div 256) % 16) + 128 * a.dir, a.speed % 256>>
        body == CASE input.kind = "set_speed" ->
                         <<246>> \o props \o <<a.accel>>
                  [] input.kind = "send_step" ->
                         <<253>> \o props \o <<a.accel>>
                             \o BigEndian(a.steps, 3)
                  [] input.kind = "seek_pos_by_steps" ->
                         <<254>> \o BigEndian(a.speed, 2) \o <<a.accel>>
                             \o BigEndian(a.pos, 3)
    IN  [arbitration_id |-> a.id,
         data |-> Append(body, (a.id + SumOf(body)) % 256)]

\* C19 as stated: each call of set_speed, send_step or seek_pos_by_steps
\* makes zero sends when bus is None and exactly one bus.send attempt when
\* a bus is given, does not raise, and returns its frame.
C19_SingleSendAttempt_AsStated ==
    (Len(ops) = 1 /\ ops[1].fn \in Builders) =>
        /\ Len(attempts) = IF input.val.bus = "none" THEN 0 ELSE 1
        /\ out.kind = "msg"

\* C19, amended: a call of set_speed, send_step or seek_pos_by_steps whose
\* fields convert makes no send when bus is None and exactly one bus.send
\* attempt, of the frame it returns, when a bus is given; when that attempt
\* fails with a CAN error there is no second attempt and no exception, only
\* the printed report; the frame returned is the same for every bus: it is
\* the frame of the other arguments.  A call with a field that does not
\* convert raises OverflowError before the send and makes no attempt.  No
\* call makes more than one attempt.
C19_SingleSendAttempt ==
    (Len(ops) >= 1 /\ ops[1].fn \in Builders) =>
        /\ Len(attempts) <= 1
        /\ FieldsConvert =>
              /\ Len(attempts) = IF input.val.bus = "none" THEN 0 ELSE 1
              /\ input.val.bus # "none" =>
                    /\ attempts[1].arbitration_id = input.val.id
                    /\ attempts[1].data[1] = OpcodeOf(ops[1].fn)
                    /\ Len(attempts[1].data) = DataLengthOf(ops[1].fn)
                    /\ attempts[1] = FrameOfArguments
              /\ printed = IF input.val.bus = "down" THEN 1 ELSE 0
              /\ Len(ops) = 1 =>
                    /\ out.kind = "msg"
                    /\ out.val.arbitration_id = input.val.id
                    /\ out.val = FrameOfArguments
                    /\ input.val.bus # "none" => attempts[1] = out.val
        /\ ~FieldsConvert =>
              /\ attempts = <<>>
              /\ printed = 0
              /\ Len(ops) = 1 => out = Raise("OverflowError")

C19_Witness ==
    /\ Chain = <<"send_step">>
    /\ input.val.bus = "down"
    /\ out.kind = "msg"
    /\ attempts = <<out.val>>
    /\ printed = 1

\* C20: firmatify of the byte array [0xEF, 0xBE, 0xAD, 0xDE] returns
\* [0x5E, 0x01, 0x2D, 0x01, 0x3E, 0x01, 0x6F, 0x01], as the docstring of
\* firmatify says.
C20_DocumentedExample ==
    (Chain = <<"firmatify">> /\ input.val = DocPack) =>
        out = Bytes(<<94, 1, 45, 1, 62, 1, 111, 1>>)

(***************************************************************************)
(* Calls running on several threads: each loop iteration is one step, and  *)
(* the steps of different threads interleave freely.  All threads are      *)
(* handed the same buffer, `input`.                                        *)
(***************************************************************************)
Threads == 1 .. MaxThreads

\* buffers handed to the concurrent calls
SharedBuffers == {<<127, 1>>, <<255, 1, 0>>, <<0, 1, 127, 0>>, DocPack}

\* the calls a thread can make, with the device id of those that take one:
\* firmatify(buf), defirmatify(buf), Commands.checksum(id, buf) for two ids,
\* set_speed(id, True, 320, 2), decode_32(buf, 0) with signed left at its
\* default True, pack_32(0xDEADBEEF)
ThreadCalls ==
    { <<"firmatify", 0>>, <<"defirmatify", 0>>, <<"checksum", 255>>,
      <<"checksum", 1>>, <<"set_speed", 1>>, <<"decode_32", 0>>,
      <<"pack_32", 0>> }

\* the calls made of a loop, and those made of one expression
LoopCalls == {"firmatify", "defirmatify", "checksum", "set_speed"}

\* the activation record of a call of every thread sharing one set of locals
frame_shared(t) == 1

\* the activation record that holds the locals (b, payload, cs) of the call
\* running on thread t: every call has its own
frame_of(t) == t

NoCall ==
    [fn |-> "none", id |-> 0, pc |-> "idle", i |-> 0,
     overlapped |-> FALSE, result |-> Raise("none")]

NoLocals == [b |-> <<>>, cs |-> 0]

\* the sequence a call's loop runs over: the argument, or for set_speed
\* the payload list it has built
Iterated(t) ==
    IF calls[t].fn = "set_speed" THEN frames[frame_of(t)].b ELSE input.val

\* thread t enters a call: its locals are initialised (b = bytearray(),
\* cs = device_id, payload = [SET_SPEED, the speed properties, accel])
Begin(t) ==
    /\ calls[t].pc = "idle"
    /\ \E c \in ThreadCalls :
          /\ calls' = [calls EXCEPT ![t] =
                 [fn |-> c[1], id |-> c[2], pc |-> "loop", i |-> 1,
                  overlapped |-> \E u \in Threads : calls[u].pc = "loop",
                  result |-> Raise("none")]]
          /\ frames' = [frames EXCEPT ![frame_of(t)] =
                 [b |-> IF c[1] = "set_speed"
                        THEN <<SET_SPEED>> \o speed_properties(1, 320)
                                 \o to_bytes_big(2, 1, FALSE).val
                        ELSE <<>>,
                  cs |-> c[2]]]
    /\ UNCHANGED <<input, ops, out, attempts, printed>>

\* one iteration of the for loop of firmatify on thread t
FirmatifyStep(t) ==
    /\ calls[t].pc = "loop" /\ calls[t].fn = "firmatify"
    /\ calls[t].i <= Len(input.val)
    /\ LET p == input.val[calls[t].i]
           f == frames[frame_of(t)]
       IN  frames' = [frames EXCEPT ![frame_of(t)].b =
                         Append(Append(f.b, BitAnd(p, 127)),
                                Shr(BitAnd(p, 128), 7))]
    /\ calls' = [calls EXCEPT ![t].i = @ + 1]
    /\ UNCHANGED <<input, ops, out, attempts, printed>>

\* one iteration of the for loop of defirmatify on thread t
DefirmatifyStep(t) ==
    /\ calls[t].pc = "loop" /\ calls[t].fn = "defirmatify"
    /\ calls[t].i <= Len(input.val)
    /\ LET k == calls[t].i
           f == frames[frame_of(t)]
       IN  IF k + 1 > Len(input.val)
           THEN /\ calls' = [calls EXCEPT ![t].pc = "done",
                                          ![t].result = Raise("IndexError")]
                /\ frames' = frames
           ELSE LET v == BitOr(input.val[k], Shl(input.val[k + 1], 7))
                IN  IF v > 255
                    THEN /\ calls' = [calls EXCEPT
                                         ![t].pc = "done",
                                         ![t].result = Raise("ValueError")]
                         /\ frames' = frames
                    ELSE /\ calls' = [calls EXCEPT ![t].i = @ + 2]
                         /\ frames' = [frames EXCEPT ![frame_of(t)].b =
                                           Append(f.b, v)]
    /\ UNCHANGED <<input, ops, out, attempts, printed>>

\* one iteration of the for loop of Commands.checksum on thread t, called
\* on the buffer or by set_speed on its payload
ChecksumStep(t) ==
    /\ calls[t].pc = "loop" /\ calls[t].fn \in {"checksum", "set_speed"}
    /\ calls[t].i <= Len(Iterated(t))
    /\ frames' = [frames EXCEPT ![frame_of(t)].cs =
                     BitAnd(@ + Iterated(t)[calls[t].i], 255)]
    /\ calls' = [calls EXCEPT ![t].i = @ + 1]
    /\ UNCHANGED <<input, ops, out, attempts, printed>>

\* the loop of thread t is over: the call returns what its locals hold
Return(t) ==
    /\ calls[t].pc = "loop" /\ calls[t].fn \in LoopCalls
    /\ calls[t].i > Len(Iterated(t))
    /\ LET f == frames[frame_of(t)]
       IN  calls' = [calls EXCEPT
              ![t].pc = "done",
              ![t].result =
                  CASE calls[t].fn = "checksum" -> Num(f.cs)
                    [] calls[t].fn = "set_speed" ->
                           Msg(calls[t].id, Append(f.b, f.cs))
                    [] OTHER -> Bytes(f.b)]
    /\ UNCHANGED <<input, ops, out, attempts, printed, frames>>

\* a call made of one expression runs on thread t: decode_32, pack_32
Straight(t) ==
    /\ calls[t].pc = "loop" /\ calls[t].fn \notin LoopCalls
    /\ calls' = [calls EXCEPT
          ![t].pc = "done",
          ![t].result =
              IF calls[t].fn = "decode_32"
              THEN Integer(decode_32(input.val, 0, TRUE))
              ELSE Bytes(pack_32(Wide(57005, 48879)))]
    /\ UNCHANGED <<input, ops, out, attempts, printed, frames>>

\* the caller on thread t takes the result; the call's locals are gone
Join(t) ==
    /\ calls[t].pc = "done"
    /\ calls' = [calls EXCEPT ![t] = NoCall]
    /\ frames' = [frames EXCEPT ![frame_of(t)] = NoLocals]
    /\ UNCHANGED <<input, ops, out, attempts, printed>>

ThreadsInit ==
    /\ \E x \in SharedBuffers : input = Bytes(x)
    /\ ops = <<>>
    /\ out = input
    /\ attempts = <<>>
    /\ printed = 0
    /\ calls = [t \in Threads |-> NoCall]
    /\ frames = [t \in Threads |-> NoLocals]

ThreadsNext ==
    \E t \in Threads :
        \/ Begin(t)
        \/ FirmatifyStep(t)
        \/ DefirmatifyStep(t)
        \/ ChecksumStep(t)
        \/ Return(t)
        \/ Straight(t)
        \/ Join(t)

ThreadsSpec == ThreadsInit /\ [][ThreadsNext]_vars

\* what the call of a thread returns when it runs alone
Alone(c) ==
    CASE c.fn = "firmatify" -> Bytes(firmatify(input.val))
      [] c.fn = "defirmatify" -> defirmatify(input.val)
      [] c.fn = "checksum" -> Num(checksum(c.id, input.val))
      [] c.fn = "set_speed" -> set_speed(c.id, 1, 320, 2)
      [] c.fn = "decode_32" -> Integer(decode_32(input.val, 0, TRUE))
      [] c.fn = "pack_32" -> Bytes(pack_32(Wide(57005, 48879)))

\* C16: two computations of Commands.checksum with equal device id and
\* equal payload return the same value, whatever calls were made before or
\* run between them: every finished computation returns the device id plus
\* the sum of the payload bytes, modulo 256, which depends on nothing but
\* the id and the bytes of the payload.
C16_ChecksumDeterminism ==
    /\ \A t \in Threads :
          (calls[t].fn = "checksum" /\ calls[t].pc = "done") =>
              calls[t].result = Num((calls[t].id + SumOf(input.val)) % 256)
    /\ \A t, u \in Threads :
          (/\ calls[t].fn = "checksum" /\ calls[t].pc = "done"
           /\ calls[u].fn = "checksum" /\ calls[u].pc = "done"
           /\ calls[t].id = calls[u].id) =>
              calls[t].result = calls[u].result

C16_Witness ==
    /\ input.val = DocPack
    /\ calls[1].fn = "checksum" /\ calls[1].pc = "done"
    /\ calls[2].fn = "checksum" /\ calls[2].pc = "done"
    /\ calls[1].id = 255 /\ calls[2].id = 255
    /\ calls[2].overlapped
    /\ calls[1].result = Num(55)
    /\ calls[2].result = Num(55)

\* C17: when calls of firmatify, defirmatify, the integer packers and
\* decoders, Commands.checksum and a bus-less frame builder run interleaved
\* on different threads, each call returns the result it returns when run
\* alone on the buffer it was handed.
C17_ConcurrentCalls ==
    \A t \in Threads :
        calls[t].pc = "done" =>
            /\ calls[t].result = Alone(calls[t])
            /\ (calls[t].fn = "decode_32" /\ input.val = DocPack) =>
                  calls[t].result = Integer(Wide(-8531, 48879))

C17_Witness ==
    /\ calls[1].fn = "firmatify"
    /\ calls[1].pc = "loop"
    /\ calls[1].i = 3
    /\ calls[2].fn = "defirmatify"
    /\ calls[2].overlapped
    /\ calls[2].pc = "done"
    /\ input.val = <<0, 1, 127, 0>>
    /\ calls[2].result = Bytes(<<128, 127>>)

\* C21: for every integer a in 0..2^32-1,
\* a == decode_32(firmatify(pack_32(a))) with decode_32's default offset
\* (0) and signedness (signed), as the docstring of firmatify says.
C21_DocumentedCheck ==
    (/\ Chain = <<"pack_32", "firmatify", "decode_32">>
     /\ ops[3].p = 0
     /\ ops[3].s
     /\ Fits(input.val, 4, FALSE)) => out = Integer(input.val)

(***************************************************************************)
(* The script's requests and the handlers of their responses.              *)
(***************************************************************************)
HandlerInit ==
    /\ input = [kind |-> "idle", val |-> <<>>]
    /\ ops = <<>>
    /\ out = input
    /\ attempts = <<>>
    /\ printed = 0
    /\ calls = <<>>
    /\ frames = <<>>

HandlerNext ==
    \/ RequestSetSpeed
    \/ RequestSendStep
    \/ RequestSeekPos
    \/ Truncate
    \/ OnSetSpeed
    \/ OnSendStep
    \/ OnSeekPosition

HandlerSpec == HandlerInit /\ [][HandlerNext]_vars

\* C22: when the payload the script builds for SET_SPEED, SEND_STEP or
\* SEEK_POS from a motor id in 0..255, a speed in -2^15..2^15-1, a step
\* count in 0..2^16-1 and a position in -2^31..2^31-1 is firmatified and
\* delivered unchanged to the matching handler, the values the handler
\* decodes are the values that were packed.
C22_RequestResponseLayout ==
    /\ (Chain = <<"request_set_speed", "on_set_speed">>
            /\ Fits(input.val.speed, 2, TRUE)) =>
          out = Fields([motor |-> Wide(0, input.val.motor),
                        speed |-> input.val.speed])
    /\ (Chain = <<"request_send_step", "on_send_step">>
            /\ Fits(input.val.steps, 2, FALSE)
            /\ Fits(input.val.speed, 2, TRUE)) =>
          out = Fields([motor |-> Wide(0, input.val.motor),
                        steps |-> input.val.steps,
                        speed |-> input.val.speed])
    /\ (Chain = <<"request_seek_pos", "on_seek_position">>
            /\ Fits(input.val.pos, 4, TRUE)
            /\ Fits(input.val.speed, 2, TRUE)) =>
          out = Fields([motor |-> Wide(0, input.val.motor),
                        position |-> input.val.pos,
                        speed |-> input.val.speed])

C22_Witness ==
    /\ Chain = <<"request_seek_pos", "on_seek_position">>
    /\ input.val.motor = 255
    /\ input.val.pos = Wide(-32768, 0)
    /\ input.val.speed = Wide(0, -50)
    /\ out = Fields([motor |-> Wide(0, 255), position |-> Wide(-32768, 0),
                      speed |-> Wide(0, -50)])

\* C23: for every device id in 0..0x7FF and every payload of bytes, the
\* empty payload included, Commands.checksum returns a value in 0..255.
C23_ChecksumIsByte ==
    (Chain = <<"checksum">> /\ input.val.device_id \in 0 .. 2047) =>
        (out.kind = "num" /\ out.val \in 0 .. 255)

\* C24: for a frame produced by set_speed, send_step or seek_pos_by_steps
\* with a device id in 0..255, changing exactly one data byte, the checksum
\* byte included, to a different value in 0..255 yields a frame whose last
\* byte is not Commands.checksum(device id, all preceding data bytes).
C24_CorruptionDetected ==
    (/\ Len(ops) = 2
     /\ ops[1].fn \in Builders
     /\ ops[2].fn = "corrupt"
     /\ input.val.id \in 0 .. 255) =>
        LET data == out.val.data
        IN  /\ data # attempts[1].data
            /\ \A k \in 1 .. Len(data) :
                  k # ops[2].p => data[k] = attempts[1].data[k]
            /\ data[Len(data)] # checksum(input.val.id, Front(data))

C24_Witness ==
    /\ Chain = <<"seek_pos_by_steps", "corrupt">>
    /\ input.val.id = 1
    /\ attempts[1].data = <<254, 2, 88, 2, 255, 192, 0, 26>>
    /\ out.val.data = <<254, 2, 88, 2, 127, 192, 0, 26>>

\* the bytes left in a buffer from an offset on
Rest(data, offset) == SubSeq(data, offset + 1, Len(data))

\* the little-endian integer formed from at most 3 bytes
LittleEndianOf(b, signed) ==
    LET v == SumOf([i \in 1 .. Len(b) |-> b[i] * (256 ^ (i - 1))])
    IN  IF signed /\ Len(b) > 0 /\ b[Len(b)] >= 128
        THEN v - 256 ^ Len(b) ELSE v

\* the bytes pack_16 or pack_32 made of the integer in `input`
Packed ==
    [i \in 1 .. (IF ops[1].fn = "pack_16" THEN 2 ELSE 4) |->
        ByteOf(input.val, i - 1)]

\* the number of bytes decode_8, decode_16, decode_32 ask for
WidthOf(fn) ==
    CASE fn = "decode_8" -> 1
      [] fn = "decode_16" -> 2
      [] fn = "decode_32" -> 4

\* C25: when fewer than N bytes remain in the buffer from the offset
\* (N = 1, 2, 4 for decode_8, decode_16, decode_32), the decoder raises no
\* error and returns the little-endian integer formed from the bytes that
\* are there, 0 when none remain.
C25_ShortDecodeIsSilent ==
    (/\ Len(ops) = 2
     /\ ops[1].fn \in {"pack_16", "pack_32"}
     /\ ops[2].fn \in {"decode_8", "decode_16", "decode_32"}
     /\ Len(Rest(Packed, ops[2].p)) < WidthOf(ops[2].fn)) =>
        /\ out.kind = "int"
        /\ out.val = Wide(0, LittleEndianOf(Rest(Packed, ops[2].p), ops[2].s))
        /\ Rest(Packed, ops[2].p) = <<>> => out.val = Wide(0, 0)

C25_Witness ==
    /\ Chain = <<"pack_16", "decode_32">>
    /\ input.val = Wide(0, -10)
    /\ ops[2].p = 1
    /\ ops[2].s
    /\ out = Integer(Wide(0, -1))

\* C26: no two distinct command names defined in Commands map to the same
\* one-byte opcode: the opcode of a command is the opcode of no other.
C26_OpcodesInjective ==
    Chain = <<"Commands">> =>
        /\ out.val \in 0 .. 255
        /\ \A other \in DOMAIN Commands \ {input.val} :
              Commands[other] # out.val

====
